---------------------------- MODULE Spec2Model ----------------------------
(***************************************************************************)
(* Temporal direct-manipulation engine of obsidian-bases-views:            *)
(*   - the four pointer gesture hooks (useTaskDrag, useTaskResize,          *)
(*     useMultiDayEventDrag, useEventResize) as closures registered on the  *)
(*     document, with the property writes they issue;                       *)
(*   - the same hooks over property writes that land asynchronously;       *)
(*   - the Day view overlap layout (calculateEventLayout), its third pass   *)
(*     stepped on its own, and the Day view's drag-to-create;               *)
(*   - single calls of the Gantt date calculations (calculateDateFromDelta, *)
(*     calculateTaskPosition, calculateTimelineRange), of the Gantt chart's *)
(*     double-click handler and of useEventDrag.handleDragEnd.              *)
(* Dates are whole local days counted from 2025-01-01 (day 0).              *)
(***************************************************************************)
EXTENDS Integers, Sequences, FiniteSets

(***************************************************************************)
(* Bounds of the model.                                                    *)
(***************************************************************************)
\* pointer clientX positions are the even pixels 0, 2, ..., 2 * MaxStep
MaxStep == 9
\* gestures (pointer-downs that start a closure) in one behaviour
MaxGestures == 2
\* pending deferred resets (setTimeout) of useEventResize
MaxTimers == 2
\* timed events on the day the Day view lays out
MaxEvents == 4
\* updateProperty calls in flight at one time
MaxInflight == 2
\* creation modals opened by the Day view
MaxModals == 2

PointerXs == {2 * i : i \in 0..MaxStep}
\* every gesture starts at the same pixel, so that the pointer can travel to
\* either side of it
StartXs == {8}
PointerYs == {0, 45, 90, 130}
\* the positions tried over asynchronous writes: the start and one day's
\* width (4px) to either side of it
WriteXs == {4, 8, 12}
MoveYs == {0, 45}
StartYs == {0}
Buttons == {0, 2}
Targets == {"body", "startHandle", "endHandle"}

(***************************************************************************)
(* Calendar arithmetic (date-fns on local dates).                          *)
(***************************************************************************)
Months == << [y |-> 2024, m |-> 12, len |-> 31],
             [y |-> 2025, m |-> 1, len |-> 31],
             [y |-> 2025, m |-> 2, len |-> 28],
             [y |-> 2025, m |-> 3, len |-> 31] >>
\* day number of the first day of Months[1]
FirstDay == 0 - Months[1].len

RECURSIVE MonthStart(_)
MonthStart(i) == IF i = 1 THEN FirstDay ELSE MonthStart(i - 1) + Months[i - 1].len

MonthIndex(day) ==
  CHOOSE i \in 1..Len(Months) : MonthStart(i) <= day /\ day < MonthStart(i) + Months[i].len

\* getFullYear / getMonth + 1 / getDate of a local date
YearOf(day) == Months[MonthIndex(day)].y
MonthOf(day) == Months[MonthIndex(day)].m
DateOf(day) == day - MonthStart(MonthIndex(day)) + 1

\* a number that is not finite: NaN, Infinity and -Infinity, the results of
\* Math.round(deltaX / 0); every use below treats the three alike
NonFinite == 0 - 1000
\* new Date(NaN): the date every operation on a non-finite amount returns
InvalidDate == 0 - 2000

addDays(date, amount) ==
  IF date = InvalidDate \/ amount = NonFinite THEN InvalidDate ELSE date + amount
startOfMonth(day) == MonthStart(MonthIndex(day))
endOfMonth(day) == MonthStart(MonthIndex(day)) + Months[MonthIndex(day)].len - 1
\* differenceInDays(endOfMonth(b), startOfMonth(a)): full 24h periods between
\* 00:00 of the first day and 23:59:59.999 of the last
differenceInDays(later, earlier) == later - earlier

Abs(n) == IF n < 0 THEN 0 - n ELSE n
\* Math.round(p / q) for q > 0: halves go towards +Infinity
MathRound(p, q) == (2 * p + q) \div (2 * q)
\* Math.floor(p / q) for q > 0
MathFloor(p, q) == p \div q

(***************************************************************************)
(* Property values as written to the frontmatter.                          *)
(***************************************************************************)
\* date.toISOString(): the instant, as a UTC timestamp string
toISOString(date) == [fmt |-> "iso", y |-> 0, m |-> 0, d |-> 0, t |-> date, s |-> ""]
\* formatDateString(date): local YYYY-MM-DD, zero padded
TextValue(str) == [fmt |-> "text", y |-> 0, m |-> 0, d |-> 0, t |-> 0, s |-> str]
\* the getters of an Invalid Date return NaN, which is interpolated as "NaN"
formatDateString(date) ==
  IF date = InvalidDate THEN TextValue("NaN-NaN-NaN")
  ELSE [fmt |-> "ymd", y |-> YearOf(date), m |-> MonthOf(date), d |-> DateOf(date),
        t |-> 0, s |-> ""]
NoValue == [fmt |-> "none", y |-> 0, m |-> 0, d |-> 0, t |-> 0, s |-> ""]

\* the data layer's reading of a stored date value
ParseDate(v) ==
  IF v.fmt = "iso" THEN v.t
  ELSE MonthStart(CHOOSE i \in 1..Len(Months) : Months[i].y = v.y /\ Months[i].m = v.m) + v.d - 1

(***************************************************************************)
(* State.                                                                  *)
(***************************************************************************)
VARIABLES
  view,           \* "gantt" | "calendar": the view the item is shown in
  geom,           \* container measurement: [present, width]
  groups,         \* Gantt task groups: sequence of [name, startRow, rowCount]
  rendered,       \* the task / event prop of the last render
  store,          \* persisted properties of the item's file
  sessions,       \* gesture closures with listeners on the document
  dragStartRef,   \* dragStartRef of the two drag hooks
  isActive,       \* isDragging / isResizing of each hook
  hadMovementRef, \* hadMovementRef of each hook
  resizeTypeRef,  \* resizeTypeRef of the two resize hooks
  previewDrag,    \* previewDelta of useMultiDayEventDrag
  previewResize,  \* previewDelta of useEventResize
  timers,         \* pending setTimeout(150) resets of useEventResize
  buttonsDown,    \* mouse buttons currently held
  gestures,       \* closures created so far
  writes,         \* updateProperty calls issued by the last event
  ended,          \* the closures whose listeners the last event removed
  ev,             \* the last pointer or timer event delivered
  returned,       \* what the last event's consumeHadMovement call returned
  persistence,    \* "settled": a write is in the file before the next event;
                  \* "pending": it lands or fails later, on its own
  inflight,       \* the updateProperty calls that have neither landed nor failed
  dayEvents,      \* the timed events handed to the Day view
  layout,         \* the Day view's rendered layout: [done, items]
  calc,           \* one call of a date calculation: [fn, args, done, ret]
  opened,         \* whether the last event opened the item's note
  creation        \* Day view: the drag-to-create state and the modals opened

vars == << view, geom, groups, rendered, store, sessions, dragStartRef, isActive,
           hadMovementRef, resizeTypeRef, previewDrag, previewResize, timers,
           buttonsDown, gestures, writes, ended, ev, returned, persistence, inflight, dayEvents, layout, calc,
           opened, creation >>

Hooks == {"useTaskDrag", "useTaskResize", "useMultiDayEventDrag", "useEventResize"}
GanttHooks == {"useTaskDrag", "useTaskResize"}
CalendarHooks == {"useMultiDayEventDrag", "useEventResize"}
DragHooks == {"useTaskDrag", "useMultiDayEventDrag"}
ResizeHooks == {"useTaskResize", "useEventResize"}

NoRef == [set |-> FALSE, x |-> 0, y |-> 0, startDate |-> 0, endDate |-> 0]
NoPreview == [set |-> FALSE, type |-> "none", days |-> 0]
Event(type, x, y, button) == [type |-> type, x |-> x, y |-> y, button |-> button]
\* what is kept of the last event: its type, its button (down, up), its
\* clientX (move) and its clientY (move, up)
Last(type, button, x, y) == [type |-> type, button |-> button, x |-> x, y |-> y]

\* no date calculation is being followed
NoCalc == [fn |-> "none", args |-> << >>, done |-> TRUE, ret |-> << >>]
\* the last event called no consumeHadMovement
NoReturn == [hook |-> "none", had |-> FALSE]

Range(seq) == {seq[i] : i \in 1..Len(seq)}

\* the mutable state the handlers act on, as one record
Cur ==
  [ sessions |-> sessions, dragStartRef |-> dragStartRef, isActive |-> isActive,
    hadMovementRef |-> hadMovementRef, resizeTypeRef |-> resizeTypeRef,
    previewDrag |-> previewDrag, previewResize |-> previewResize,
    timers |-> timers, writes |-> << >>, store |-> store, returned |-> NoReturn,
    opened |-> FALSE ]

Commit(S) ==
  /\ sessions' = SelectSeq(S.sessions, LAMBDA c : c.move \/ c.up)
  /\ ended' = SelectSeq(S.sessions, LAMBDA c : ~(c.move \/ c.up))
  /\ dragStartRef' = S.dragStartRef
  /\ isActive' = S.isActive
  /\ hadMovementRef' = S.hadMovementRef
  /\ resizeTypeRef' = S.resizeTypeRef
  /\ previewDrag' = S.previewDrag
  /\ previewResize' = S.previewResize
  /\ timers' = S.timers
  /\ writes' = S.writes
  /\ returned' = S.returned
  /\ opened' = S.opened
  /\ persistence' = persistence
  /\ store' = IF persistence = "settled" THEN S.store ELSE store
  /\ inflight' = IF persistence = "settled" THEN inflight ELSE inflight \o S.writes
  /\ Len(inflight') <= MaxInflight

\* usePropertyUpdate(app).updateProperty(file, property, value): fire and forget
\* each call is recorded with the closure c that issued it
updateProperty(S, c, property, value) ==
  [S EXCEPT !.writes = Append(@, [by |-> c.hook, id |-> c.id, prop |-> property, val |-> value]),
            !.store[property] = value]


(***************************************************************************)
(* Geometry-time mapping.                                                  *)
(***************************************************************************)
Min2(a, b) == IF a <= b THEN a ELSE b
Max2(a, b) == IF a >= b THEN a ELSE b

\* tasks.flatMap((t) => [t.startDate, t.endDate])
allDates(tasks) == UNION {{tasks[i].start, tasks[i].end} : i \in 1..Len(tasks)}
MinDate(dates) == CHOOSE d \in dates : \A e \in dates : d <= e
MaxDate(dates) == CHOOSE d \in dates : \A e \in dates : d >= e

\* defective variant: only the start dates are looked at
calculateTimelineRange_startsOnly(tasks, now) ==
  IF Len(tasks) = 0 THEN [start |-> startOfMonth(now), end |-> endOfMonth(now)]
  ELSE LET starts == {tasks[i].start : i \in 1..Len(tasks)}
       IN [start |-> startOfMonth(MinDate(starts)), end |-> endOfMonth(MaxDate(starts))]

\* calculateTimelineRange(tasks); now is the value of new Date()
calculateTimelineRange(tasks, now) ==
  IF Len(tasks) = 0 THEN [start |-> startOfMonth(now), end |-> endOfMonth(now)]
  ELSE [start |-> startOfMonth(MinDate(allDates(tasks))),
        end |-> endOfMonth(MaxDate(allDates(tasks)))]

\* pixels per day as the fraction num / den
getPixelsPerDay ==
  LET tl == calculateTimelineRange(<< rendered >>, 0)
      totalDays == differenceInDays(tl.end, tl.start) + 1
      chartWidth == IF geom.present /\ geom.width # 0 THEN geom.width ELSE 1000
  IN [num |-> chartWidth, den |-> totalDays]

getDayWidth ==
  IF ~geom.present THEN [num |-> 100, den |-> 1] ELSE [num |-> geom.width, den |-> 7]

\* Math.round(pixelDelta / pixelsPerDay); a division by 0 gives NaN or an
\* infinity, which Math.round returns unchanged
DaysDelta(pixelDelta, ppd) ==
  IF ppd.num = 0 THEN NonFinite ELSE MathRound(pixelDelta * ppd.den, ppd.num)

\* defective variant: the day delta is applied backwards
calculateDateFromDelta_backwards(originalDate, pixelDelta, pixelsPerDay) ==
  addDays(originalDate, 0 - DaysDelta(pixelDelta, pixelsPerDay))

\* defective variant: the quotient is truncated downwards instead of rounded
calculateDateFromDelta_floored(originalDate, pixelDelta, pixelsPerDay) ==
  addDays(originalDate, MathFloor(pixelDelta * pixelsPerDay.den, pixelsPerDay.num))

calculateDateFromDelta(originalDate, pixelDelta, pixelsPerDay) ==
  addDays(originalDate, DaysDelta(pixelDelta, pixelsPerDay))

\* calculateTaskPosition: left and width in percent, as fractions num / den
calculateTaskPosition(taskStart, taskEnd, timelineStart, timelineEnd) ==
  LET timelineSpan == differenceInDays(timelineEnd, timelineStart) + 1
      taskStartOffset == differenceInDays(taskStart, timelineStart)
      taskSpan == differenceInDays(taskEnd, taskStart) + 1
  IN [left |-> [num |-> taskStartOffset * 100, den |-> timelineSpan],
      width |-> [num |-> taskSpan * 100, den |-> timelineSpan]]

NoGroupFound == [found |-> FALSE, name |-> ""]

\* defective variant: the row after a group's last row is taken as its own
RECURSIVE GroupScan_inclusive(_, _, _)
GroupScan_inclusive(row, gs, i) ==
  IF i > Len(gs) THEN NoGroupFound
  ELSE IF row >= gs[i].startRow /\ row <= gs[i].startRow + gs[i].rowCount
       THEN [found |-> TRUE, name |-> gs[i].name]
       ELSE GroupScan_inclusive(row, gs, i + 1)

RECURSIVE GroupScan(_, _, _)
GroupScan(row, gs, i) ==
  IF i > Len(gs) THEN NoGroupFound
  ELSE IF row >= gs[i].startRow /\ row < gs[i].startRow + gs[i].rowCount
       THEN [found |-> TRUE, name |-> gs[i].name]
       ELSE GroupScan(row, gs, i + 1)

findGroupAtPosition(y, gs, rowHeight) == GroupScan(MathFloor(y, rowHeight), gs, 1)

ROW_HEIGHT == 40
groupByProperty == IF groups # << >> THEN "group" ELSE ""

(***************************************************************************)
(* Gesture closures.  Each pointer-down that starts a gesture creates one  *)
(* closure; move / up say whether its handleMouseMove / handleMouseUp is   *)
(* registered on the document.                                             *)
(***************************************************************************)
Closure(hook, handle, startX, ppd) ==
  [id |-> gestures + 1, hook |-> hook, handle |-> handle, startX |-> startX,
   origStart |-> rendered.start,
   origEnd |-> IF rendered.hasEnd THEN rendered.end ELSE rendered.start,
   origGroup |-> rendered.group,
   ppd |-> ppd, delta |-> 0, skipped |-> FALSE, move |-> TRUE, up |-> TRUE]
\* delta is currentDeltaDays, a variable of the calendar closures only;
\* skipped records that a move of the gesture failed useTaskResize's validation

\* document.addEventListener('mousemove', ...); ('mouseup', ...)
AddListeners(S, c) == [S EXCEPT !.sessions = Append(@, c)]
\* defective variant: the mouseup listener stays registered
RemoveListeners_moveOnly(S, i) ==
  [S EXCEPT !.sessions[i].move = FALSE]

\* document.removeEventListener for both listeners of closure i
RemoveListeners(S, i) ==
  [S EXCEPT !.sessions[i].move = FALSE, !.sessions[i].up = FALSE]

\* defective variant: the flag is read but left set
consumeHadMovement_peek(S, hook) ==
  [S EXCEPT !.returned = [hook |-> hook, had |-> S.hadMovementRef[hook]]]

\* consumeHadMovement of the hook: const had = hadMovementRef.current;
\* hadMovementRef.current = false; return had
consumeHadMovement(S, hook) ==
  [S EXCEPT !.returned = [hook |-> hook, had |-> S.hadMovementRef[hook]],
            !.hadMovementRef[hook] = FALSE]

\* handleClick of the calendar's Event and MultiDayEvent components:
\* const hadDrag = consumeDragMovement(); const hadResize = consumeResizeMovement();
\* if (hadDrag || hadResize) { preventDefault; stopPropagation; return; } openNote(e)
Event_handleClick(S) ==
  LET afterDrag == consumeHadMovement(S, "useMultiDayEventDrag")
      hadDrag == afterDrag.returned.had
      afterResize == consumeHadMovement(afterDrag, "useEventResize")
      hadResize == afterResize.returned.had
  IN [afterResize EXCEPT !.opened = ~(hadDrag \/ hadResize)]

(***************************************************************************)
(* useTaskDrag                                                             *)
(***************************************************************************)
useTaskDrag_handleDragStart(S, e) ==
  IF e.button # 0 THEN S
  ELSE AddListeners(
         [S EXCEPT !.isActive["useTaskDrag"] = TRUE,
                   !.hadMovementRef["useTaskDrag"] = FALSE,
                   !.dragStartRef["useTaskDrag"] =
                      [set |-> TRUE, x |-> e.x, y |-> e.y, startDate |-> 0, endDate |-> 0]],
         Closure("useTaskDrag", "none", e.x, getPixelsPerDay))

useTaskDrag_handleMouseMove(S, i, e) ==
  LET c == S.sessions[i]
      ref == S.dragStartRef["useTaskDrag"]
      deltaX == e.x - ref.x
      deltaY == e.y - ref.y
      S1 == IF Abs(deltaX) > 3 \/ Abs(deltaY) > 3
            THEN [S EXCEPT !.hadMovementRef["useTaskDrag"] = TRUE] ELSE S
      newStartDate == calculateDateFromDelta(c.origStart, deltaX, c.ppd)
      newEndDate == calculateDateFromDelta(c.origEnd, deltaX, c.ppd)
      S2 == updateProperty(S1, c, "start", toISOString(newStartDate))
  IN IF ~ref.set THEN S
     ELSE updateProperty(S2, c, "end", toISOString(newEndDate))

useTaskDrag_handleMouseUp(S, i, e) ==
  LET c == S.sessions[i]
      newGroup == findGroupAtPosition(e.y, groups, ROW_HEIGHT)
      groupValue == IF newGroup.name = "No Group" THEN "" ELSE newGroup.name
      S1 == IF /\ Len(groups) > 0 /\ groupByProperty # "" /\ geom.present
               /\ newGroup.found /\ newGroup.name # "" /\ newGroup.name # c.origGroup
            THEN updateProperty(S, c, "group", TextValue(groupValue))
            ELSE S
  IN RemoveListeners(
       [S1 EXCEPT !.isActive["useTaskDrag"] = FALSE,
                  !.dragStartRef["useTaskDrag"] = NoRef], i)

(***************************************************************************)
(* useTaskResize                                                           *)
(***************************************************************************)
useTaskResize_handleResizeStart(S, e, handle) ==
  AddListeners(
    [S EXCEPT !.isActive["useTaskResize"] = TRUE,
              !.hadMovementRef["useTaskResize"] = FALSE,
              !.resizeTypeRef["useTaskResize"] = handle],
    Closure("useTaskResize", handle, e.x, getPixelsPerDay))

\* defective variant: a candidate equal to the opposite bound is let through
useTaskResize_rejects_onlyCrossing(handle, newDate, taskStartDate, taskEndDate) ==
  \/ handle = "start" /\ newDate > taskEndDate
  \/ handle = "end" /\ newDate < taskStartDate

\* the validation of a move: start must stay before end
useTaskResize_rejects(handle, newDate, taskStartDate, taskEndDate) ==
  \/ handle = "start" /\ newDate >= taskEndDate
  \/ handle = "end" /\ newDate <= taskStartDate

\* defective variant: the handles address each other's property
useTaskResize_propertyName_swapped(handle) == IF handle = "start" THEN "end" ELSE "start"

\* handle === 'start' ? task.startDateProperty : task.endDateProperty
useTaskResize_propertyName(handle) == IF handle = "start" THEN "start" ELSE "end"

\* defective variant: a rejected candidate ends the gesture
useTaskResize_return_cancels(S, i) ==
  [S EXCEPT !.sessions[i].skipped = TRUE,
            !.sessions[i].move = FALSE, !.sessions[i].up = FALSE]

\* return: the move is skipped, nothing else happens
useTaskResize_return(S, i) == [S EXCEPT !.sessions[i].skipped = TRUE]

useTaskResize_handleMouseMove(S, i, e) ==
  LET c == S.sessions[i]
      deltaX == e.x - c.startX
      S1 == IF Abs(deltaX) > 3
            THEN [S EXCEPT !.hadMovementRef["useTaskResize"] = TRUE] ELSE S
      originalDate == IF c.handle = "start" THEN c.origStart ELSE c.origEnd
      newDate == calculateDateFromDelta(originalDate, deltaX, c.ppd)
      propertyName == useTaskResize_propertyName(c.handle)
  IN IF newDate # originalDate
     THEN IF useTaskResize_rejects(c.handle, newDate, c.origStart, c.origEnd)
          THEN useTaskResize_return(S1, i)
          ELSE updateProperty(S1, c, propertyName, toISOString(newDate))
     ELSE S1

useTaskResize_handleMouseUp(S, i, e) ==
  RemoveListeners(
    [S EXCEPT !.isActive["useTaskResize"] = FALSE,
              !.resizeTypeRef["useTaskResize"] = "null"], i)


(***************************************************************************)
(* useMultiDayEventDrag                                                    *)
(***************************************************************************)
useMultiDayEventDrag_handleDragStart(S, e) ==
  IF e.button # 0 THEN S
  ELSE LET c == Closure("useMultiDayEventDrag", "none", e.x, getDayWidth)
       IN AddListeners(
            [S EXCEPT !.isActive["useMultiDayEventDrag"] = TRUE,
                      !.hadMovementRef["useMultiDayEventDrag"] = FALSE,
                      !.dragStartRef["useMultiDayEventDrag"] =
                         [set |-> TRUE, x |-> e.x, y |-> 0,
                          startDate |-> c.origStart, endDate |-> c.origEnd]],
            c)

useMultiDayEventDrag_handleMouseMove(S, i, e) ==
  LET c == S.sessions[i]
      ref == S.dragStartRef["useMultiDayEventDrag"]
      deltaX == e.x - ref.x
      currentDeltaDays == DaysDelta(deltaX, c.ppd)
      S1 == [S EXCEPT !.sessions[i].delta = currentDeltaDays]
      S2 == IF Abs(deltaX) > 5
            THEN [S1 EXCEPT !.hadMovementRef["useMultiDayEventDrag"] = TRUE] ELSE S1
  IN IF ~ref.set THEN S
     ELSE [S2 EXCEPT !.previewDrag = currentDeltaDays]

\* defective variant: the end keeps its snapshot value
useMultiDayEventDrag_newDates_endKept(ref, currentDeltaDays) ==
  [startDate |-> addDays(ref.startDate, currentDeltaDays),
   endDate |-> ref.endDate]

\* newStartDate, newEndDate of the commit
useMultiDayEventDrag_newDates(ref, currentDeltaDays) ==
  [startDate |-> addDays(ref.startDate, currentDeltaDays),
   endDate |-> addDays(ref.endDate, currentDeltaDays)]

useMultiDayEventDrag_handleMouseUp(S, i, e) ==
  LET c == S.sessions[i]
      ref == S.dragStartRef["useMultiDayEventDrag"]
      new == useMultiDayEventDrag_newDates(ref, c.delta)
      S1 == IF ref.set /\ c.delta # 0
            THEN updateProperty(
                   updateProperty(S, c, "start", formatDateString(new.startDate)),
                   c, "end", formatDateString(new.endDate))
            ELSE S
  IN RemoveListeners(
       [S1 EXCEPT !.isActive["useMultiDayEventDrag"] = FALSE,
                  !.previewDrag = 0,
                  !.dragStartRef["useMultiDayEventDrag"] = NoRef], i)

(***************************************************************************)
(* useEventResize                                                          *)
(***************************************************************************)
useEventResize_handleResizeStart(S, e, handle) ==
  AddListeners(
    [S EXCEPT !.isActive["useEventResize"] = TRUE,
              !.hadMovementRef["useEventResize"] = FALSE,
              !.resizeTypeRef["useEventResize"] = handle],
    Closure("useEventResize", handle, e.x, getDayWidth))

\* defective variant: the move also writes the candidate, as the Gantt hooks do
useEventResize_setPreviewDelta_live(S, c, days) ==
  updateProperty(
    [S EXCEPT !.previewResize = [set |-> TRUE, type |-> c.handle, days |-> days]],
    c, c.handle,
    formatDateString(addDays(IF c.handle = "start" THEN c.origStart ELSE c.origEnd, days)))

\* setPreviewDelta({ type: handle, days }): the phantom only, no file update
useEventResize_setPreviewDelta(S, c, days) ==
  [S EXCEPT !.previewResize = [set |-> TRUE, type |-> c.handle, days |-> days]]

useEventResize_handleMouseMove(S, i, e) ==
  LET c == S.sessions[i]
      deltaX == e.x - c.startX
      currentDeltaDays == DaysDelta(deltaX, c.ppd)
      S1 == [S EXCEPT !.sessions[i].delta = currentDeltaDays]
      S2 == IF Abs(deltaX) > 5
            THEN [S1 EXCEPT !.hadMovementRef["useEventResize"] = TRUE] ELSE S1
  IN useEventResize_setPreviewDelta(S2, c, currentDeltaDays)

\* defective variant: only a start strictly before the end is committed
useEventResize_startAllowed_strict(newStartDate, originalEndDate) ==
  newStartDate # InvalidDate /\ newStartDate < originalEndDate

\* the validation of the commit: may the candidate date be written?  A
\* comparison with an Invalid Date is false.
useEventResize_startAllowed(newStartDate, originalEndDate) ==
  newStartDate # InvalidDate /\ newStartDate <= originalEndDate
useEventResize_endAllowed(newEndDate, originalStartDate) ==
  newEndDate # InvalidDate /\ newEndDate >= originalStartDate

useEventResize_handleMouseUp(S, i, e) ==
  LET c == S.sessions[i]
      S0 == RemoveListeners(S, i)
      newStartDate == addDays(c.origStart, c.delta)
      newEndDate == addDays(c.origEnd, c.delta)
      S1 == IF c.delta # 0
            THEN IF c.handle = "start"
                 THEN IF useEventResize_startAllowed(newStartDate, c.origEnd)
                      THEN updateProperty(S0, c, "start", formatDateString(newStartDate))
                      ELSE S0
                 ELSE IF useEventResize_endAllowed(newEndDate, c.origStart)
                      THEN updateProperty(S0, c, "end", formatDateString(newEndDate))
                      ELSE S0
            ELSE S0
  IN [S1 EXCEPT !.timers = @ + 1]

\* the callback of setTimeout(..., 150) set by handleMouseUp
useEventResize_resetTimeout(S) ==
  [S EXCEPT !.isActive["useEventResize"] = FALSE,
            !.previewResize = NoPreview,
            !.resizeTypeRef["useEventResize"] = "null",
            !.timers = @ - 1]

(***************************************************************************)
(* Delivery of document events to the registered listeners, in the order   *)
(* of registration.                                                        *)
(***************************************************************************)
handleMouseMove(S, i, e) ==
  CASE S.sessions[i].hook = "useTaskDrag" -> useTaskDrag_handleMouseMove(S, i, e)
    [] S.sessions[i].hook = "useTaskResize" -> useTaskResize_handleMouseMove(S, i, e)
    [] S.sessions[i].hook = "useMultiDayEventDrag" -> useMultiDayEventDrag_handleMouseMove(S, i, e)
    [] OTHER -> useEventResize_handleMouseMove(S, i, e)

handleMouseUp(S, i, e) ==
  CASE S.sessions[i].hook = "useTaskDrag" -> useTaskDrag_handleMouseUp(S, i, e)
    [] S.sessions[i].hook = "useTaskResize" -> useTaskResize_handleMouseUp(S, i, e)
    [] S.sessions[i].hook = "useMultiDayEventDrag" -> useMultiDayEventDrag_handleMouseUp(S, i, e)
    [] OTHER -> useEventResize_handleMouseUp(S, i, e)

RECURSIVE DispatchMouseMove(_, _, _)
DispatchMouseMove(S, i, e) ==
  IF i > Len(S.sessions) THEN S
  ELSE DispatchMouseMove(IF S.sessions[i].move THEN handleMouseMove(S, i, e) ELSE S, i + 1, e)

RECURSIVE DispatchMouseUp(_, _, _)
DispatchMouseUp(S, i, e) ==
  IF i > Len(S.sessions) THEN S
  ELSE DispatchMouseUp(IF S.sessions[i].up THEN handleMouseUp(S, i, e) ELSE S, i + 1, e)

\* onMouseDown of the element under the pointer
handleMouseDown(S, target, e) ==
  IF view = "gantt"
  THEN CASE target = "body" -> useTaskDrag_handleDragStart(S, e)
         [] target = "startHandle" -> useTaskResize_handleResizeStart(S, e, "start")
         [] OTHER -> useTaskResize_handleResizeStart(S, e, "end")
  ELSE CASE target = "body" -> useMultiDayEventDrag_handleDragStart(S, e)
         [] target = "startHandle" -> useEventResize_handleResizeStart(S, e, "start")
         [] OTHER -> useEventResize_handleResizeStart(S, e, "end")

(***************************************************************************)
(* The data layer: the item is rebuilt from the stored properties.         *)
(***************************************************************************)
ItemOf(st) ==
  [start |-> ParseDate(st.start),
   end |-> IF st.end.fmt = "none" THEN ParseDate(st.start) ELSE ParseDate(st.end),
   hasEnd |-> st.end.fmt # "none",
   group |-> st.group.s]

\* an item is rebuilt only from date values the data layer can read
Readable(st) == st.start.fmt \in {"iso", "ymd"} /\ st.end.fmt \in {"iso", "ymd", "none"}

ResizeSessions(S) == Len(SelectSeq(S.sessions, LAMBDA c : c.hook = "useEventResize"))

(***************************************************************************)
(* Actions.                                                                *)
(***************************************************************************)
PointerDown ==
  \E target \in Targets,
     button \in (IF persistence = "pending" THEN {0} ELSE Buttons) \ buttonsDown,
     x \in StartXs, y \in StartYs :
    /\ gestures < MaxGestures
    /\ target # "body" /\ view = "calendar" => timers + ResizeSessions(Cur) < MaxTimers
    /\ buttonsDown' = buttonsDown \cup {button}
    /\ ev' = Last("down", button, 0, 0)
    /\ Commit(handleMouseDown(Cur, target, Event("down", x, y, button)))
    /\ gestures' = gestures + (Len(sessions') - Len(sessions))
    /\ UNCHANGED << view, geom, groups, rendered, dayEvents, layout, calc, creation >>

\* the calendar hooks never read clientY
PointerMove ==
  \E x \in IF persistence = "pending" THEN WriteXs ELSE PointerXs,
     y \in IF view = "gantt" THEN MoveYs ELSE StartYs :
    /\ sessions # << >>
    /\ ev' = Last("move", 0, x, y)
    /\ Commit(DispatchMouseMove(Cur, 1, Event("move", x, y, 0)))
    /\ UNCHANGED << view, geom, groups, rendered, buttonsDown, gestures, dayEvents, layout, calc, creation >>

PointerUp ==
  \E button \in buttonsDown,
     y \in IF view = "calendar" THEN StartYs
           ELSE IF persistence = "pending" THEN {0, 90} ELSE PointerYs :
    /\ buttonsDown' = buttonsDown \ {button}
    /\ ev' = Last("up", button, 0, y)
    /\ Commit(DispatchMouseUp(Cur, 1, Event("up", 0, y, button)))
    /\ UNCHANGED << view, geom, groups, rendered, gestures, dayEvents, layout, calc, creation >>

ResetTimeout ==
  /\ timers > 0
  /\ ev' = Last("timeout", 0, 0, 0)
  /\ Commit(useEventResize_resetTimeout(Cur))
  /\ UNCHANGED << view, geom, groups, rendered, buttonsDown, gestures, dayEvents, layout, calc, creation >>

\* A click handler asks one of the view's hooks whether the gesture before the
\* click moved; the click follows the release of the buttons.
Consume ==
  \E hook \in IF view = "gantt" THEN GanttHooks ELSE CalendarHooks :
    /\ buttonsDown = {}
    /\ ev' = Last("consume", 0, 0, 0)
    /\ Commit(consumeHadMovement(Cur, hook))
    /\ UNCHANGED << view, geom, groups, rendered, buttonsDown, gestures, dayEvents, layout, calc, creation >>

\* A click that reaches the onClick of the calendar event's element; it follows
\* the release of the left button.  A click on a resize handle is stopped at the
\* handle (onClick = stopPropagation) and reaches no handler.
Click ==
  /\ view = "calendar"
  /\ buttonsDown = {}
  /\ ev.type = "up" /\ ev.button = 0
  /\ ev' = Last("click", 0, 0, 0)
  /\ Commit(Event_handleClick(Cur))
  /\ UNCHANGED << view, geom, groups, rendered, buttonsDown, gestures, dayEvents, layout, calc, creation >>

\* A re-render with the item rebuilt from the file.  The closures of a running
\* gesture keep the item they captured, so a re-render is visible only to the
\* next pointer-down: it is taken between gestures.
Refresh ==
  /\ sessions = << >>
  /\ Readable(store)
  /\ rendered # ItemOf(store)
  /\ rendered' = ItemOf(store)
  /\ UNCHANGED << ev, returned, persistence, inflight, writes, ended, view, geom, groups, store, sessions, dragStartRef, isActive,
                  hadMovementRef, resizeTypeRef, previewDrag, previewResize, timers,
                  buttonsDown, gestures, dayEvents, layout, calc, opened, creation >>

(***************************************************************************)
(* Day view: the column layout of timed events (DayView.tsx).  A time of   *)
(* day is [day, min]: the local day and the minutes since local midnight.  *)
(* Positions are pixels; with HOUR_HEIGHT = 60 a minute is one pixel, and  *)
(* (minutes / 60) * HOUR_HEIGHT is exact for the times used here.          *)
(***************************************************************************)
HOUR_HEIGHT == 60
MIN_HEIGHT == 20

Time(day, min) == [day |-> day, min |-> min]
NoEnd == [set |-> FALSE, day |-> 0, min |-> 0]
EndAt(day, min) == [set |-> TRUE, day |-> day, min |-> min]
CalendarEvent(date, endDate) == [date |-> date, endDate |-> endDate]

getHours(t) == t.min \div 60
getMinutes(t) == t.min % 60
isSameDay(a, b) == a.day = b.day
differenceInMinutes(later, earlier) ==
  (later.day - earlier.day) * 1440 + (later.min - earlier.min)

getEventPosition(event, day) ==
  LET startHour == getHours(event.date)
      startMinutes == getMinutes(event.date)
      top == startHour * HOUR_HEIGHT + (startMinutes * HOUR_HEIGHT) \div 60
  IN IF ~event.endDate.set THEN [top |-> top, height |-> HOUR_HEIGHT]
     ELSE IF ~isSameDay(event.date, event.endDate)
     THEN IF isSameDay(event.date, day)
          THEN [top |-> top, height |-> (24 * HOUR_HEIGHT) - top]
          ELSE IF isSameDay(event.endDate, day)
          THEN [top |-> 0,
                height |-> getHours(event.endDate) * HOUR_HEIGHT
                           + (getMinutes(event.endDate) * HOUR_HEIGHT) \div 60]
          ELSE [top |-> 0, height |-> 24 * HOUR_HEIGHT]
     ELSE LET durationMinutes == differenceInMinutes(event.endDate, event.date)
          IN [top |-> top,
              height |-> Max2((durationMinutes * HOUR_HEIGHT) \div 60, MIN_HEIGHT)]

eventsOverlap(start1, end1, start2, end2) == start1 < end2 /\ end1 > start2

\* eventsWithPos.sort((a, b) => a.top - b.top): a stable sort by top
RECURSIVE InsertByTop(_, _)
InsertByTop(sorted, x) ==
  IF sorted = << >> THEN << x >>
  ELSE IF sorted[Len(sorted)].top <= x.top THEN Append(sorted, x)
  ELSE Append(InsertByTop(SubSeq(sorted, 1, Len(sorted) - 1), x), sorted[Len(sorted)])

\* defective variant: the items are scanned in the order they were given
SortByTop_asGiven(seq) == seq

RECURSIVE SortByTop(_)
SortByTop(seq) ==
  IF seq = << >> THEN << >>
  ELSE InsertByTop(SortByTop(SubSeq(seq, 1, Len(seq) - 1)), seq[Len(seq)])

\* defective variant: the occupied columns are not skipped
FirstFreeColumn_unchecked(occupiedColumns, column) == column

\* let column = 0; while (occupiedColumns.has(column)) column++
RECURSIVE FirstFreeColumn(_, _)
FirstFreeColumn(occupiedColumns, column) ==
  IF column \in occupiedColumns THEN FirstFreeColumn(occupiedColumns, column + 1)
  ELSE column

\* first pass: scan by top, each event takes the first column not held by
\* an event still in progress
RECURSIVE AssignColumns(_, _, _, _)
AssignColumns(eventsWithPos, i, activeEvents, result) ==
  IF i > Len(eventsWithPos) THEN result
  ELSE LET cur == eventsWithPos[i]
           endPos == cur.top + cur.height
           stillActive == SelectSeq(activeEvents, LAMBDA ae : ae.endPos > cur.top)
           occupiedColumns == {stillActive[k].column : k \in 1..Len(stillActive)}
           column == FirstFreeColumn(occupiedColumns, 0)
       IN AssignColumns(eventsWithPos, i + 1,
            Append(stillActive, [endPos |-> endPos, column |-> column, index |-> i]),
            Append(result, [event |-> cur.event, top |-> cur.top, height |-> cur.height,
                            column |-> column, totalColumns |-> 1]))

SetMax(S) == CHOOSE m \in S : \A n \in S : n <= m

Overlapping(result, i, j) ==
  eventsOverlap(result[i].top, result[i].top + result[i].height,
                result[j].top, result[j].top + result[j].height)

\* defective variant: the largest column is taken as the number of columns
LocalTotalColumns_maxColumn(result) ==
  [i \in 1..Len(result) |->
     [result[i] EXCEPT !.totalColumns =
        SetMax({result[i].column}
               \cup {result[j].column : j \in {k \in 1..Len(result) :
                                                 k # i /\ Overlapping(result, i, k)}})]]

\* second pass: totalColumns = 1 + the largest column among the event and
\* the events that overlap it
LocalTotalColumns(result) ==
  [i \in 1..Len(result) |->
     [result[i] EXCEPT !.totalColumns =
        SetMax({result[i].column}
               \cup {result[j].column : j \in {k \in 1..Len(result) :
                                                 k # i /\ Overlapping(result, i, k)}}) + 1]]

\* defective variant: every overlapping pair counts as a change
RECURSIVE EqualizeSweep_anyOverlapChanges(_, _, _, _)
EqualizeSweep_anyOverlapChanges(result, i, j, changed) ==
  IF i > Len(result) THEN [result |-> result, changed |-> changed]
  ELSE IF j > Len(result) THEN EqualizeSweep_anyOverlapChanges(result, i + 1, 1, changed)
  ELSE IF i # j /\ Overlapping(result, i, j)
  THEN IF result[i].totalColumns # result[j].totalColumns
       THEN LET maxCols == Max2(result[i].totalColumns, result[j].totalColumns)
            IN EqualizeSweep_anyOverlapChanges([result EXCEPT ![i].totalColumns = maxCols,
                                                              ![j].totalColumns = maxCols],
                                               i, j + 1, TRUE)
       ELSE EqualizeSweep_anyOverlapChanges(result, i, j + 1, TRUE)
  ELSE EqualizeSweep_anyOverlapChanges(result, i, j + 1, changed)

\* third pass, one sweep of the two nested loops from pair (i, j) on;
\* returns the array and whether any entry was raised
RECURSIVE EqualizeSweep(_, _, _, _)
EqualizeSweep(result, i, j, changed) ==
  IF i > Len(result) THEN [result |-> result, changed |-> changed]
  ELSE IF j > Len(result) THEN EqualizeSweep(result, i + 1, 1, changed)
  ELSE IF i # j /\ Overlapping(result, i, j)
          /\ result[i].totalColumns # result[j].totalColumns
  THEN LET maxCols == Max2(result[i].totalColumns, result[j].totalColumns)
       IN EqualizeSweep([result EXCEPT ![i].totalColumns = maxCols,
                                       ![j].totalColumns = maxCols],
                        i, j + 1, TRUE)
  ELSE EqualizeSweep(result, i, j + 1, changed)

\* defective variant: the third pass is left out
EqualizeTotalColumns_skipped(result) == result

\* while (changed) { ... }
RECURSIVE EqualizeTotalColumns(_)
EqualizeTotalColumns(result) ==
  LET sweep == EqualizeSweep(result, 1, 1, FALSE)
  IN IF sweep.changed THEN EqualizeTotalColumns(sweep.result) ELSE sweep.result

NoLayout == [done |-> FALSE, items |-> << >>]

\* the result array as the third pass finds it
BeforeThirdPass(events, day) ==
  LET eventsWithPos ==
        [k \in 1..Len(events) |->
           [event |-> events[k],
            top |-> getEventPosition(events[k], day).top,
            height |-> getEventPosition(events[k], day).height]]
  IN LocalTotalColumns(AssignColumns(SortByTop(eventsWithPos), 1, << >>, << >>))

calculateEventLayout(events, day) ==
  IF Len(events) = 0 THEN << >>
  ELSE EqualizeTotalColumns(BeforeThirdPass(events, day))

(***************************************************************************)
(* Day view: creating an event on the hourly grid (DayView.tsx).  null is  *)
(* the empty sequence, a value v is << v >>.                               *)
(***************************************************************************)
\* Convert Y position to snapped minutes (15-minute intervals)
positionToMinutes(y) ==
  LET totalMinutes == MathFloor(y * 60, HOUR_HEIGHT)
  IN MathFloor(totalMinutes, 15) * 15

minutesToPosition(minutes) == (minutes * HOUR_HEIGHT) \div 60

\* date-fns setHours / setMinutes: a value past the unit's range carries over
setHours(t, hours) == Time(t.day + (hours \div 24), ((hours % 24) * 60) + (t.min % 60))
setMinutes(t, minutes) == Time(t.day, ((t.min \div 60) * 60) + minutes)

\* the component as mounted: useState(false), useState(null), useRef(null)
NoCreation ==
  [isCreating |-> FALSE, creationStart |-> << >>, creationEnd |-> << >>,
   creationStartRef |-> << >>, modals |-> << >>]

\* onMouseDown of the events column; onEvent: the target lies inside a timed
\* event; y: the pointer's offset in the column, scroll included
DayView_handleMouseDown(C, button, onEvent, y) ==
  IF button # 0 \/ onEvent THEN C
  ELSE LET snappedMinutes == positionToMinutes(y)
           snappedPos == minutesToPosition(snappedMinutes)
       IN [C EXCEPT !.isCreating = TRUE,
                    !.creationStart = << snappedPos >>,
                    !.creationEnd = << snappedPos + minutesToPosition(15) >>,
                    !.creationStartRef = << snappedMinutes >>]

\* defective variant: the pointer's offset is not held inside the column
DayView_handleMouseMove_unclamped(C, y) ==
  IF ~C.isCreating \/ C.creationStartRef = << >> THEN C
  ELSE LET snappedMinutes == positionToMinutes(y)
           startMinutes == C.creationStartRef[1]
           minMinutes == Min2(startMinutes, snappedMinutes)
           maxMinutes == Max2(startMinutes, snappedMinutes)
           endMinutes == Max2(maxMinutes, minMinutes + 15)
       IN [C EXCEPT !.creationStart = << minutesToPosition(minMinutes) >>,
                    !.creationEnd = << minutesToPosition(endMinutes) >>]

\* the document listeners exist while isCreating (useEffect)
DayView_handleMouseMove(C, y) ==
  IF ~C.isCreating \/ C.creationStartRef = << >> THEN C
  ELSE LET snappedMinutes == positionToMinutes(Max2(0, Min2(y, 24 * HOUR_HEIGHT)))
           startMinutes == C.creationStartRef[1]
           minMinutes == Min2(startMinutes, snappedMinutes)
           maxMinutes == Max2(startMinutes, snappedMinutes)
           endMinutes == Max2(maxMinutes, minMinutes + 15)
       IN [C EXCEPT !.creationStart = << minutesToPosition(minMinutes) >>,
                    !.creationEnd = << minutesToPosition(endMinutes) >>]

\* new NewEventModal(app, startTime, endTime, ...).open()
NewEventModal(startTime, endTime) == [startTime |-> startTime, endTime |-> endTime]

DayView_handleMouseUp(C, day) ==
  IF ~C.isCreating THEN C
  ELSE LET opens == C.creationStart # << >> /\ C.creationEnd # << >>
           startMinutes == MathRound(C.creationStart[1] * 60, HOUR_HEIGHT)
           endMinutes == MathRound(C.creationEnd[1] * 60, HOUR_HEIGHT)
           startHour == MathFloor(startMinutes, 60)
           startMinute == startMinutes % 60
           endHour == MathFloor(endMinutes, 60)
           endMinute == endMinutes % 60
           startTime == setMinutes(setHours(day, startHour), startMinute)
           endTime == setMinutes(setHours(day, endHour), endMinute)
       IN [C EXCEPT !.modals = IF opens THEN Append(@, NewEventModal(startTime, endTime)) ELSE @,
                    !.isCreating = FALSE,
                    !.creationStart = << >>,
                    !.creationEnd = << >>,
                    !.creationStartRef = << >>]

(***************************************************************************)
(* Initial states.                                                         *)
(***************************************************************************)
Item(s, e, hasEnd, g) == [start |-> s, end |-> e, hasEnd |-> hasEnd, group |-> g]

TwoGroups == << [name |-> "A", startRow |-> 0, rowCount |-> 2],
                [name |-> "No Group", startRow |-> 2, rowCount |-> 1] >>
Measured(w) == [present |-> TRUE, width |-> w]
Unmeasured == [present |-> FALSE, width |-> 0]
Config(g, gs, item) == [geom |-> g, groups |-> gs, item |-> item]

\* a chart of 124px over the 31 days of January: 4px per day
GanttConfigs == { Config(Measured(124), TwoGroups, Item(2, 4, TRUE, "A")),
                  Config(Measured(0), TwoGroups, Item(2, 4, TRUE, "")),
                  Config(Unmeasured, << >>, Item(5, 5, TRUE, "")) }
\* a week grid of 28px: 4px per day
CalendarConfigs == { Config(Measured(28), << >>, Item(0, 9, TRUE, "")),
                     Config(Measured(28), << >>, Item(2, 3, TRUE, "")),
                     Config(Measured(28), << >>, Item(3, 3, FALSE, "")),
                     Config(Unmeasured, << >>, Item(2, 3, TRUE, "")),
                     Config(Measured(0), << >>, Item(2, 3, TRUE, "")) }

StoreOf(v, item) ==
  [start |-> IF v = "gantt" THEN toISOString(item.start) ELSE formatDateString(item.start),
   end |-> IF ~item.hasEnd THEN NoValue
           ELSE IF v = "gantt" THEN toISOString(item.end) ELSE formatDateString(item.end),
   group |-> TextValue(item.group)]

\* the hooks as constructed: no gesture, nothing registered
NoGesture ==
  /\ sessions = << >>
  /\ dragStartRef = [h \in DragHooks |-> NoRef]
  /\ isActive = [h \in Hooks |-> FALSE]
  /\ hadMovementRef = [h \in Hooks |-> FALSE]
  /\ resizeTypeRef = [h \in ResizeHooks |-> "null"]
  /\ previewDrag = 0
  /\ previewResize = NoPreview
  /\ timers = 0
  /\ buttonsDown = {}
  /\ writes = << >>
  /\ ended = << >>
  /\ gestures = 0
  /\ ev = Last("init", 0, 0, 0)
  /\ returned = NoReturn
  /\ inflight = << >>
  /\ calc = NoCalc
  /\ opened = FALSE
  /\ creation = NoCreation

Init ==
  /\ view \in {"gantt", "calendar"}
  /\ \E cfg \in IF view = "gantt" THEN GanttConfigs ELSE CalendarConfigs :
       /\ geom = cfg.geom
       /\ groups = cfg.groups
       /\ rendered = cfg.item
  /\ store = StoreOf(view, rendered)
  /\ NoGesture
  /\ persistence = "settled"
  /\ dayEvents = << >>
  /\ layout = NoLayout

Next == PointerDown \/ PointerMove \/ PointerUp \/ ResetTimeout \/ Consume \/ Click \/ Refresh

Spec == Init /\ [][Next]_vars

(***************************************************************************)
(* The same hooks over a file whose writes are asynchronous: every         *)
(* updateProperty call returns at once and its write lands, or is          *)
(* rejected, at some later time, each call on its own.                     *)
(***************************************************************************)
RemoveAt(seq, i) == SubSeq(seq, 1, i - 1) \o SubSeq(seq, i + 1, Len(seq))

\* the write of one call reaches the file
LandWrite ==
  \E i \in 1..Len(inflight) :
    /\ store' = [store EXCEPT ![inflight[i].prop] = inflight[i].val]
    /\ inflight' = RemoveAt(inflight, i)
    /\ ev' = Last("land", 0, 0, 0)
    /\ writes' = << >> /\ ended' = << >> /\ returned' = NoReturn /\ opened' = FALSE
    /\ UNCHANGED << view, geom, groups, rendered, sessions, dragStartRef, isActive,
                    hadMovementRef, resizeTypeRef, previewDrag, previewResize, timers,
                    buttonsDown, gestures, persistence, dayEvents, layout, calc, creation >>

\* the promise of one call is rejected: nothing is written, no handler of the
\* hooks is attached to it
FailWrite ==
  \E i \in 1..Len(inflight) :
    /\ inflight' = RemoveAt(inflight, i)
    /\ ev' = Last("reject", 0, 0, 0)
    /\ writes' = << >> /\ ended' = << >> /\ returned' = NoReturn /\ opened' = FALSE
    /\ UNCHANGED << view, geom, groups, rendered, store, sessions, dragStartRef, isActive,
                    hadMovementRef, resizeTypeRef, previewDrag, previewResize, timers,
                    buttonsDown, gestures, persistence, dayEvents, layout, calc, creation >>

InitWrites ==
  /\ view \in {"gantt", "calendar"}
  /\ \E cfg \in IF view = "gantt"
                THEN {Config(Measured(124), TwoGroups, Item(2, 4, TRUE, "A"))}
                ELSE {Config(Measured(28), << >>, Item(2, 3, TRUE, ""))} :
       /\ geom = cfg.geom
       /\ groups = cfg.groups
       /\ rendered = cfg.item
  /\ store = StoreOf(view, rendered)
  /\ NoGesture
  /\ persistence = "pending"
  /\ dayEvents = << >>
  /\ layout = NoLayout

NextWrites == Next \/ LandWrite \/ FailWrite

SpecWrites == InitWrites /\ [][NextWrites]_vars

(***************************************************************************)
(* Properties of the gesture hooks (checked under Spec).                   *)
(***************************************************************************)
\* the updateProperty calls the last event made closure c issue
WritesOf(c) == SelectSeq(writes, LAMBDA w : w.id = c.id)

\* d is deltaX / pixelsPerDay rounded to the nearest whole day, halves upwards
IsRounded(d, deltaX, ppd) ==
  /\ 2 * d * ppd.num - ppd.num <= 2 * deltaX * ppd.den
  /\ 2 * deltaX * ppd.den < 2 * d * ppd.num + ppd.num

DayDeltas == (0 - 2 * MaxStep)..(2 * MaxStep)

Ymd(y, m, d) == [fmt |-> "ymd", y |-> y, m |-> m, d |-> d, t |-> 0, s |-> ""]

\* C1: when a useMultiDayEventDrag gesture ends on pointer-up with a final
\* delta k # 0, exactly two writes are issued: the start property is the
\* snapshot start plus k days and the end property is the snapshot end plus
\* the same k days.  An event 2025-01-01..2025-01-10 shifted by +3 is written
\* as 2025-01-04..2025-01-13.  The written values are the formatted
\* addDays(snapshot, k), also for a k that is not a finite number.
C1_DragCommitShiftsBoth ==
  ev.type = "up" =>
    \A n \in 1..Len(ended) :
      LET c == ended[n]
          w == WritesOf(c)
      IN (c.hook = "useMultiDayEventDrag" /\ c.delta # 0) =>
           /\ Len(w) = 2
           /\ w[1].prop = "start" /\ w[2].prop = "end"
           /\ w[1].val = formatDateString(addDays(c.origStart, c.delta))
           /\ w[2].val = formatDateString(addDays(c.origEnd, c.delta))
           /\ c.delta # NonFinite =>
                /\ ParseDate(w[1].val) = c.origStart + c.delta
                /\ ParseDate(w[2].val) = c.origEnd + c.delta
           /\ (c.origStart = 0 /\ c.origEnd = 9 /\ c.delta = 3) =>
                w[1].val = Ymd(2025, 1, 4) /\ w[2].val = Ymd(2025, 1, 13)

\* a drag of the event 2025-01-01..2025-01-10 by three days has been committed
C1_Witness ==
  /\ ev.type = "up"
  /\ \E n \in 1..Len(ended) :
       /\ ended[n].hook = "useMultiDayEventDrag"
       /\ ended[n].origStart = 0 /\ ended[n].origEnd = 9 /\ ended[n].delta = 3
       /\ Len(WritesOf(ended[n])) = 2
       /\ store.start = Ymd(2025, 1, 4) /\ store.end = Ymd(2025, 1, 13)

\* C2 as stated: the commit of useEventResize writes a new start only if it is
\* strictly before the event's end and a new end only if it is strictly after
\* the event's start; a candidate equal to the opposite bound is never written.
C2_EqualNeverWritten ==
  ev.type = "up" =>
    \A n \in 1..Len(ended) :
      LET c == ended[n]
          w == WritesOf(c)
      IN c.hook = "useEventResize" =>
           \A k \in 1..Len(w) :
             /\ w[k].prop = "start" => ParseDate(w[k].val) < c.origEnd
             /\ w[k].prop = "end" => ParseDate(w[k].val) > c.origStart

\* C2, amended: the commit of useEventResize issues no write when the
\* candidate would put the start after the end.  With a non-zero delta a new
\* start is written exactly when it is on or before the snapshot end, and a new
\* end exactly when it is on or after the snapshot start: a candidate equal to
\* the opposite bound is written.
C2_CommitWritesUnlessCrossing ==
  ev.type = "up" =>
    \A n \in 1..Len(ended) :
      LET c == ended[n]
          w == WritesOf(c)
          candidate == addDays(IF c.handle = "start" THEN c.origStart ELSE c.origEnd, c.delta)
          ordered == IF c.handle = "start" THEN candidate <= c.origEnd
                     ELSE candidate >= c.origStart
      IN c.hook = "useEventResize" =>
           IF c.delta # 0 /\ candidate # InvalidDate /\ ordered
           THEN Len(w) = 1 /\ w[1].prop = c.handle /\ ParseDate(w[1].val) = candidate
           ELSE w = << >>

\* a start handle released past the event's end: nothing written
C2_Witness ==
  /\ ev.type = "up"
  /\ \E n \in 1..Len(ended) :
       /\ ended[n].hook = "useEventResize" /\ ended[n].handle = "start"
       /\ ended[n].delta # 0
       /\ ended[n].origStart + ended[n].delta > ended[n].origEnd
       /\ WritesOf(ended[n]) = << >>
       /\ Len(ended) = 1 /\ store.start = formatDateString(ended[n].origStart)

\* the candidate of a useTaskResize closure for a pointer at clientX x fails
\* the validation start < end
Rejected(c, x) ==
  \E d \in DayDeltas :
    /\ IsRounded(d, x - c.startX, c.ppd)
    /\ \/ c.handle = "start" /\ c.origStart + d >= c.origEnd
       \/ c.handle = "end" /\ c.origEnd + d <= c.origStart

\* C3: every pointer-move of useTaskResize whose candidate would make
\* start >= end issues no updateProperty call and leaves the gesture active;
\* with no other gesture running both persisted bounds are left unchanged.
C3_RejectedMoveWritesNothing ==
  [][ ev'.type = "move" =>
        \A n \in 1..Len(sessions') :
          LET c == sessions'[n]
          IN (c.hook = "useTaskResize" /\ Rejected(c, ev'.x)) =>
               /\ SelectSeq(writes', LAMBDA w : w.id = c.id) = << >>
               /\ c.move /\ c.up /\ isActive'["useTaskResize"]
               /\ Len(sessions') = 1 => store' = store ]_vars

\* the start handle of the task 2025-01-03..2025-01-05 dragged two days to
\* the right, onto the task's end
C3_Witness ==
  /\ ev.type = "move"
  /\ Len(sessions) = 1
  /\ sessions[1].hook = "useTaskResize" /\ sessions[1].handle = "start"
  /\ sessions[1].origStart = 2 /\ sessions[1].origEnd = 4
  /\ ev.x - sessions[1].startX = 8
  /\ Rejected(sessions[1], ev.x)
  /\ writes = << >>
  /\ isActive["useTaskResize"]

\* C4: the calendar hooks (useMultiDayEventDrag, useEventResize) issue no
\* updateProperty call on pointer-down or on any pointer-move: a move changes
\* the preview only and the persisted properties stay as they were.
C4_PreviewOnlyBeforeUp ==
  [][ (view = "calendar" /\ ev'.type \in {"down", "move"}) =>
        writes' = << >> /\ store' = store ]_vars

\* a calendar resize previewing a non-zero delta with nothing written
C4_Witness ==
  /\ view = "calendar"
  /\ ev.type = "move"
  /\ \E n \in 1..Len(sessions) :
       /\ sessions[n].hook = "useEventResize"
       /\ sessions[n].delta # 0
       /\ previewResize = [set |-> TRUE, type |-> sessions[n].handle,
                           days |-> sessions[n].delta]
  /\ writes = << >>
  /\ store = StoreOf(view, rendered)

\* C5: every pointer-move of an active useTaskDrag writes the start and the end
\* as the snapshot values plus d = round(deltaX / pixelsPerDay); pointer-up
\* writes no date.  So after every move, and after the gesture, the persisted
\* pair is the snapshot pair shifted by the delta of the last pointer position
\* (with no other gesture running).
C5_DragMoveWritesShiftedPair ==
  /\ ev.type = "move" =>
       \A n \in 1..Len(sessions) : \A d \in DayDeltas :
         LET c == sessions[n]
             w == WritesOf(c)
         IN (c.hook = "useTaskDrag" /\ IsRounded(d, ev.x - c.startX, c.ppd)) =>
              /\ Len(w) = 2
              /\ w[1].prop = "start" /\ ParseDate(w[1].val) = c.origStart + d
              /\ w[2].prop = "end" /\ ParseDate(w[2].val) = c.origEnd + d
              /\ Len(sessions) = 1 =>
                   /\ ParseDate(store.start) = c.origStart + d
                   /\ ParseDate(store.end) = c.origEnd + d
  /\ ev.type = "up" =>
       \A n \in 1..Len(ended) :
         ended[n].hook = "useTaskDrag" =>
           \A k \in 1..Len(WritesOf(ended[n])) :
             WritesOf(ended[n])[k].prop \notin {"start", "end"}

\* the task 2025-01-03..2025-01-05 dragged 10px at 4px per day: 2.5 days,
\* rounded to 3
C5_Witness ==
  /\ ev.type = "move"
  /\ Len(sessions) = 1
  /\ sessions[1].hook = "useTaskDrag"
  /\ sessions[1].origStart = 2 /\ sessions[1].origEnd = 4
  /\ ev.x - sessions[1].startX = 10
  /\ store.start = toISOString(5) /\ store.end = toISOString(7)

\* C6 as stated: when a useTaskResize gesture completes, the persisted value
\* of the resized bound is the snapshot value plus round(lastDeltaX /
\* pixelsPerDay), for every sequence of moves whose final candidate satisfies
\* start < end (no other gesture running).
C6_ResizePersistsFinalCandidate ==
  [][ (ev.type = "move" /\ ev'.type = "up" /\ Len(sessions) = 1) =>
        \A d \in DayDeltas :
          LET c == sessions[1]
              original == IF c.handle = "start" THEN c.origStart ELSE c.origEnd
              valid == IF c.handle = "start" THEN original + d < c.origEnd
                       ELSE original + d > c.origStart
          IN (c.hook = "useTaskResize" /\ IsRounded(d, ev.x - c.startX, c.ppd) /\ valid) =>
               ParseDate(store'[c.handle]) = original + d ]_vars

\* C10 as stated: no document listener of a hook is registered while that
\* hook is idle (isDragging / isResizing false).
C10_NoListenerWhileIdle ==
  \A n \in 1..Len(sessions) :
    (sessions[n].move \/ sessions[n].up) => isActive[sessions[n].hook]

\* C11 as stated: over any sequence of pointer-down, pointer-move and
\* pointer-up events with any mouse button on the item's drag surface and
\* resize handles, at most one gesture session is active at any time.
C11_AtMostOneSession == Len(sessions) <= 1

\* C13 as stated: a gesture of any of the four hooks whose day delta is zero
\* at every pointer-move and at release issues no updateProperty call for a
\* date property.  Stated on the first move of a gesture running alone.
C13_ZeroDeltaWritesNoDate ==
  [][ (ev.type = "down" /\ ev'.type = "move" /\ Len(sessions) = 1) =>
        (IsRounded(0, ev'.x - sessions[1].startX, sessions[1].ppd) =>
           \A k \in 1..Len(writes') : writes'[k].prop \notin {"start", "end"}) ]_vars

\* the groups whose rows contain the row of relativeY = y
GroupsAt(y) ==
  {g \in Range(groups) :
     ROW_HEIGHT * g.startRow <= y /\ y < ROW_HEIGHT * (g.startRow + g.rowCount)}

\* C14: with grouping active, the pointer-up of useTaskDrag resolves the group
\* whose rows [startRow, startRow + rowCount) contain floor(relativeY / 40).
\* A group write is issued if and only if a group is resolved and its name
\* differs from the task's original group; it writes the empty string for
\* "No Group" and the group's name otherwise.
C14_GroupWriteOnRelease ==
  ev.type = "up" =>
    \A n \in 1..Len(ended) :
      LET c == ended[n]
          gw == SelectSeq(WritesOf(c), LAMBDA w : w.prop = "group")
          dest == {g \in GroupsAt(ev.y) : g.name # c.origGroup}
      IN (c.hook = "useTaskDrag" /\ groups # << >> /\ geom.present) =>
           /\ dest = {} => gw = << >>
           /\ \A g \in dest :
                /\ Len(gw) = 1
                /\ gw[1].val = TextValue(IF g.name = "No Group" THEN "" ELSE g.name)

\* a task of group A released on the rows of "No Group": the group is cleared
C14_Witness ==
  /\ ev.type = "up" /\ ev.y = 90
  /\ Len(ended) = 1
  /\ ended[1].hook = "useTaskDrag" /\ ended[1].origGroup = "A"
  /\ \E g \in GroupsAt(ev.y) : g.name = "No Group"
  /\ Len(WritesOf(ended[1])) = 1
  /\ store.group = TextValue("")

\* C15 as stated: a pointer-move of useEventResize whose candidate would put
\* the start after the end does not update the preview delta, which keeps its
\* last valid value (resize running alone).
C15_InvalidMoveKeepsPreview ==
  [][ (ev'.type = "move" /\ Len(sessions') = 1) =>
        \A d \in DayDeltas :
          LET c == sessions'[1]
              crossing == IF c.handle = "start" THEN c.origStart + d > c.origEnd
                          ELSE c.origEnd + d < c.origStart
          IN (c.hook = "useEventResize" /\ IsRounded(d, ev'.x - c.startX, c.ppd)
              /\ crossing) =>
               previewResize' = previewResize ]_vars

\* C18 as stated: the pixels-per-unit value captured at pointer-down is
\* positive, also for a container that is absent or of width 0, so that every
\* day delta is a finite integer and every date written is a valid date.
C18_PositiveScaleValidDates ==
  /\ \A n \in 1..Len(sessions) :
       sessions[n].ppd.num > 0 /\ sessions[n].delta # NonFinite
  /\ \A k \in 1..Len(writes) :
       writes[k].prop \in {"start", "end"} => writes[k].val.fmt \in {"iso", "ymd"}

\* the displacement that counts as movement: more than 3px for the Gantt
\* hooks (either axis for the drag), more than 5px for the calendar hooks
MovedFar(c, x, y) ==
  \/ c.hook \in GanttHooks /\ Abs(x - c.startX) > 3
  \/ c.hook = "useTaskDrag" /\ Abs(y - dragStartRef["useTaskDrag"].y) > 3
  \/ c.hook \in CalendarHooks /\ Abs(x - c.startX) > 5

C29_NonPrimaryStartsNothing ==
  [][ (ev'.type = "down" /\ buttonsDown' # buttonsDown /\ ev'.button # 0) =>
        sessions' = sessions ]_vars

\* C27: a pointer-move of useTaskResize whose candidate is rejected does not
\* end the gesture.  No pointer-move removes a listener, and in a resize
\* running alone in which a move has been rejected, a move whose candidate is
\* valid and differs from the snapshot issues one write: the grabbed handle's
\* property, with exactly that candidate.
C27_ResizeRecoversAfterRejection ==
  ev.type = "move" =>
    /\ ended = << >>
    /\ Len(sessions) = 1 =>
         \A d \in DayDeltas :
           LET c == sessions[1]
               originalDate == IF c.handle = "start" THEN c.origStart ELSE c.origEnd
           IN (/\ c.hook = "useTaskResize" /\ c.skipped
               /\ IsRounded(d, ev.x - c.startX, c.ppd)
               /\ d # 0 /\ ~Rejected(c, ev.x)) =>
                /\ c.move /\ c.up /\ isActive["useTaskResize"]
                /\ Len(WritesOf(c)) = 1
                /\ WritesOf(c)[1].prop = c.handle
                /\ WritesOf(c)[1].val = toISOString(originalDate + d)

\* the start handle of the task 2025-01-03..2025-01-05 was pushed onto the end
\* (rejected) and then pulled one day before the snapshot start (written)
C27_Witness ==
  /\ ev.type = "move"
  /\ Len(sessions) = 1
  /\ sessions[1].hook = "useTaskResize" /\ sessions[1].handle = "start"
  /\ sessions[1].skipped
  /\ sessions[1].origStart = 2
  /\ Len(WritesOf(sessions[1])) = 1
  /\ store.start = toISOString(1)

\* C28: a resize gesture writes only the property of the handle it grabbed:
\* every write issued by useTaskResize or useEventResize comes from a closure
\* of that hook and addresses the start property for the start handle and the
\* end property for the end handle, never the other date and never the group.
C28_ResizeWritesOwnHandleOnly ==
  \A k \in 1..Len(writes) :
    writes[k].by \in ResizeHooks =>
      \E c \in Range(sessions) \cup Range(ended) :
        /\ c.id = writes[k].id /\ c.hook = writes[k].by
        /\ c.handle \in {"start", "end"}
        /\ writes[k].prop = c.handle

\* an end-handle resize of the calendar has committed: one write, of the end
C28_Witness ==
  /\ ev.type = "up"
  /\ Len(ended) = 1
  /\ ended[1].hook = "useEventResize" /\ ended[1].handle = "end"
  /\ Len(writes) = 1 /\ writes[1].prop = "end"
  /\ store.start = formatDateString(ended[1].origStart)

\* C24 as stated: isResizing of useEventResize is true in every state between
\* a pointer-down on a handle and the matching pointer-up: no step leaves a
\* resize closure registered with isResizing false, also when the resize
\* started while the timer of the previous pointer-up was pending.
C24_ResizingHeldThroughGesture ==
  [][ (\E n \in 1..Len(sessions') : sessions'[n].hook = "useEventResize") =>
        isActive'["useEventResize"] ]_vars

\* C26 as stated: a gesture in which no pointer-move exceeded the movement
\* threshold issues no date write: whenever a hook writes a date property,
\* its movement flag is set.
C26_ClickWritesNoDate ==
  \A k \in 1..Len(writes) :
    writes[k].prop \in {"start", "end"} => hadMovementRef[writes[k].by]

\* the last pointer-up ended the latest gesture, and no other; the gesture
\* began on the body of the event
EndedLatestGesture ==
  /\ Len(ended) = 1 /\ ended[1].id = gestures /\ sessions = << >>
  /\ ended[1].hook = "useMultiDayEventDrag"

\* that gesture crossed the movement threshold of its hook: the hook's flag is
\* cleared at the gesture's pointer-down and set by its moves only
GestureMoved == hadMovementRef[ended[1].hook]

\* C25: a click on the body of a calendar event is kept from opening the note
\* only if the gesture that produced this click moved above the threshold; a
\* click without movement opens the note, whatever gestures came before it.
C25_ClickOpensUnlessItsGestureMoved ==
  [][ (ev.type = "up" /\ ev'.type = "click" /\ EndedLatestGesture)
        => (opened' \/ GestureMoved) ]_vars

(***************************************************************************)
(* Properties of the hooks over asynchronous writes (checked under         *)
(* SpecWrites).                                                            *)
(***************************************************************************)
\* the persisted duration in days
Duration(st) == ItemOf(st).end - ItemOf(st).start

\* C16 as stated: the persisted (start, end) pair is never observable as a
\* partial shift.  The write of a drag hook that lands changes no persisted
\* duration: the file never holds the start of one pair with the end of
\* another.
C16_NoPartialShift ==
  [][ \A i \in 1..Len(inflight) :
        (/\ inflight' = RemoveAt(inflight, i)
         /\ store' # store
         /\ inflight[i].by \in DragHooks
         /\ inflight[i].prop \in {"start", "end"}) =>
          Duration(store') = Duration(store) ]_vars

C23_PersistedStartNotAfterEnd ==
  (Readable(store) /\ store.end.fmt # "none") => ItemOf(store).start <= ItemOf(store).end

(***************************************************************************)
(* The Day view on its own: a list of timed events is laid out once.       *)
(***************************************************************************)
currentDate == Time(0, 0)

SameDay(startMin, endMin) == CalendarEvent(Time(0, startMin), EndAt(0, endMin))

DayEventChoices ==
  { SameDay(540, 600),                          \* 09:00-10:00
    SameDay(570, 630),                          \* 09:30-10:30
    SameDay(540, 630),                          \* 09:00-10:30
    SameDay(570, 600),                          \* 09:30-10:00
    SameDay(600, 660),                          \* 10:00-11:00
    SameDay(600, 610),                          \* 10:00-10:10, drawn 20px high
    SameDay(610, 660),                          \* 10:10-11:00
    CalendarEvent(Time(0, 630), NoEnd),         \* 10:30, no end: one hour
    CalendarEvent(Time(0, 600), EndAt(1, 480)), \* from 10:00 into the next day
    CalendarEvent(Time(0 - 1, 1200), EndAt(0, 570)) } \* from the day before to 09:30

DayEventLists == UNION { [1..n -> DayEventChoices] : n \in 0..MaxEvents }

InitLayout ==
  /\ view = "day"
  /\ geom = Unmeasured
  /\ groups = << >>
  /\ rendered = Item(0, 0, FALSE, "")
  /\ store = StoreOf(view, rendered)
  /\ NoGesture
  /\ persistence = "settled"
  /\ dayEvents \in DayEventLists
  /\ layout = NoLayout

RenderDay ==
  /\ view = "day"
  /\ ~layout.done
  /\ layout' = [done |-> TRUE, items |-> calculateEventLayout(dayEvents, currentDate)]
  /\ UNCHANGED << view, geom, groups, rendered, store, sessions, dragStartRef, isActive,
                  hadMovementRef, resizeTypeRef, previewDrag, previewResize, timers,
                  buttonsDown, gestures, writes, ended, ev, returned, persistence, inflight, dayEvents,
                  calc, opened, creation >>

NextLayout == RenderDay

SpecLayout == InitLayout /\ [][NextLayout]_vars

(***************************************************************************)
(* The third pass of calculateEventLayout on its own: layout.items is the  *)
(* result array, each step is one turn of the while (changed) loop, and    *)
(* layout.done is set when a turn ends with changed = false.               *)
(***************************************************************************)
\* lists of five events in which a raise travels back along a chain:
\* until 09:30, 09:00-10:00, 09:30-10:30, 10:00-11:00 and 10:00-10:10, as
\* given and in reverse
ChainLists ==
  { << CalendarEvent(Time(0 - 1, 1200), EndAt(0, 570)), SameDay(540, 600),
       SameDay(570, 630), SameDay(600, 660), SameDay(600, 610) >>,
    << SameDay(600, 610), SameDay(600, 660), SameDay(570, 630), SameDay(540, 600),
       CalendarEvent(Time(0 - 1, 1200), EndAt(0, 570)) >> }

InitThirdPass ==
  /\ view = "day"
  /\ geom = Unmeasured
  /\ groups = << >>
  /\ rendered = Item(0, 0, FALSE, "")
  /\ store = StoreOf(view, rendered)
  /\ NoGesture
  /\ persistence = "settled"
  /\ dayEvents \in (DayEventLists \ {<< >>}) \cup ChainLists
  /\ layout = [done |-> FALSE, items |-> BeforeThirdPass(dayEvents, currentDate)]

ThirdPassSweep ==
  /\ view = "day"
  /\ ~layout.done
  /\ LET sweep == EqualizeSweep(layout.items, 1, 1, FALSE)
     IN layout' = [done |-> ~sweep.changed, items |-> sweep.result]
  /\ UNCHANGED << view, geom, groups, rendered, store, sessions, dragStartRef, isActive,
                  hadMovementRef, resizeTypeRef, previewDrag, previewResize, timers,
                  buttonsDown, gestures, writes, ended, ev, returned, persistence, inflight,
                  dayEvents, calc, opened, creation >>

NextThirdPass == ThirdPassSweep

\* the loop runs on its own: a turn that can be taken is taken
SpecThirdPass == InitThirdPass /\ [][NextThirdPass]_vars /\ WF_vars(ThirdPassSweep)

(***************************************************************************)
(* Properties of the third pass (checked under SpecThirdPass).             *)
(***************************************************************************)
\* two items of the result array that overlap and differ in totalColumns
DifferingPair(i, j) ==
  /\ i # j
  /\ Overlapping(layout.items, i, j)
  /\ layout.items[i].totalColumns # layout.items[j].totalColumns

\* C32: the third pass of calculateEventLayout terminates for every input:
\* after finitely many full passes the loop is left, and no overlapping pair
\* is left whose totalColumns differ.
C32_ThirdPassTerminates ==
  <>(layout.done /\ \A i, j \in 1..Len(layout.items) : ~DifferingPair(i, j))

\* the chain of five events after the first full pass: the loop is still
\* running, the pass has raised the second item to 3 and left the first, which
\* overlaps it, at 2
C32_Witness ==
  /\ ~layout.done
  /\ Len(dayEvents) = 5
  /\ layout.items[1].totalColumns = 2 /\ layout.items[2].totalColumns = 3
  /\ layout.items # BeforeThirdPass(dayEvents, currentDate)
  /\ \E i, j \in 1..Len(layout.items) : DifferingPair(i, j)

(***************************************************************************)
(* The Day view's grid on its own: pointer events on the events column.    *)
(***************************************************************************)
\* offsets of the pointer in the column: 00:00, 00:10, 00:37, 10:00, 23:50
GridYs == {0, 10, 37, 600, 1430}
\* offsets during a drag, above and below the column included
GridMoveYs == {0 - 5, 0, 20, 50, 615, 1500}

InitCreate ==
  /\ view = "day"
  /\ geom = Unmeasured
  /\ groups = << >>
  /\ rendered = Item(0, 0, FALSE, "")
  /\ store = StoreOf(view, rendered)
  /\ NoGesture
  /\ persistence = "settled"
  /\ dayEvents = << >>
  /\ layout = NoLayout

GridUnchanged ==
  UNCHANGED << view, geom, groups, rendered, store, sessions, dragStartRef, isActive,
               hadMovementRef, resizeTypeRef, previewDrag, previewResize, timers,
               gestures, writes, ended, returned, persistence, inflight, dayEvents,
               layout, calc, opened >>

GridMouseDown ==
  \E button \in Buttons \ buttonsDown, onEvent \in BOOLEAN, y \in GridYs :
    /\ Len(creation.modals) < MaxModals
    /\ buttonsDown' = buttonsDown \cup {button}
    /\ ev' = Last("down", button, 0, y)
    /\ creation' = DayView_handleMouseDown(creation, button, onEvent, y)
    /\ GridUnchanged

GridMouseMove ==
  \E y \in GridMoveYs :
    /\ ev' = Last("move", 0, 0, y)
    /\ creation' = DayView_handleMouseMove(creation, y)
    /\ UNCHANGED buttonsDown
    /\ GridUnchanged

GridMouseUp ==
  \E button \in buttonsDown :
    /\ buttonsDown' = buttonsDown \ {button}
    /\ ev' = Last("up", button, 0, 0)
    /\ creation' = DayView_handleMouseUp(creation, currentDate)
    /\ GridUnchanged

NextCreate == GridMouseDown \/ GridMouseMove \/ GridMouseUp

SpecCreate == InitCreate /\ [][NextCreate]_vars

(***************************************************************************)
(* Properties of event creation in the Day view (checked under SpecCreate).*)
(***************************************************************************)
\* the modal the last event opened
LastModal == creation.modals[Len(creation.modals)]

\* C22: in the Day view, clicking twice on the empty hourly grid starts the
\* creation of an event of 30 minutes: the start and end handed to the
\* creation modal by a press and release without movement are 30 minutes apart.
C22_GridClickCreatesThirtyMinutes ==
  [][ (ev.type = "down" /\ ev'.type = "up" /\ Len(creation'.modals) > Len(creation.modals))
        => differenceInMinutes(LastModal'.endTime, LastModal'.startTime) = 30 ]_vars

\* nothing is being created: isCreating false, start, end and ref cleared
CreationIdle(C) ==
  /\ ~C.isCreating
  /\ C.creationStart = << >> /\ C.creationEnd = << >> /\ C.creationStartRef = << >>

\* the preview range in minutes, as the preview and the pointer-up compute it
PreviewStart(C) == MathRound(C.creationStart[1] * 60, HOUR_HEIGHT)
PreviewEnd(C) == MathRound(C.creationEnd[1] * 60, HOUR_HEIGHT)

\* C35: while isCreating is true the preview range has its start and its end
\* on 15-minute boundaries, start >= 0, end - start >= 15 minutes and end <=
\* 24:00, wherever the pointer is dragged; every pointer-up returns to the idle
\* state; and a move or release while isCreating is false reaches no listener.
C35_PreviewRangeWellFormed ==
  [][ /\ creation'.isCreating =>
           /\ creation'.creationStart # << >> /\ creation'.creationEnd # << >>
           /\ PreviewStart(creation') % 15 = 0 /\ PreviewEnd(creation') % 15 = 0
           /\ PreviewStart(creation') >= 0
           /\ PreviewEnd(creation') - PreviewStart(creation') >= 15
           /\ PreviewEnd(creation') <= 24 * 60
      /\ ev'.type = "up" => CreationIdle(creation')
      /\ (~creation.isCreating /\ ev'.type \in {"move", "up"}) => creation' = creation
    ]_vars

\* pressed at 10:00 and dragged above the column: the preview runs from 00:00
\* to 10:00
C35_Witness ==
  /\ creation.isCreating
  /\ ev.type = "move" /\ ev.y < 0
  /\ creation.creationStartRef = << 600 >>
  /\ PreviewStart(creation) = 0 /\ PreviewEnd(creation) = 600


(***************************************************************************)
(* Properties of the Day view layout (checked under SpecLayout).           *)
(***************************************************************************)
\* the drawn extents of items i and j of the layout intersect
Intersect(i, j) ==
  /\ layout.items[i].top < layout.items[j].top + layout.items[j].height
  /\ layout.items[i].top + layout.items[i].height > layout.items[j].top

\* the items reachable from the set S through chains of intersecting items
RECURSIVE Cluster(_)
Cluster(S) ==
  LET T == S \cup {j \in 1..Len(layout.items) : \E i \in S : i # j /\ Intersect(i, j)}
  IN IF T = S THEN S ELSE Cluster(T)

\* C7: any two items returned by calculateEventLayout whose extents intersect
\* (start1 < end2 and end1 > start2) are in different columns.
C7_IntersectingItemsDifferInColumn ==
  layout.done =>
    \A i, j \in 1..Len(layout.items) :
      (i # j /\ Intersect(i, j)) => layout.items[i].column # layout.items[j].column

\* 09:00-10:30, 09:30-10:00 and 10:00-11:00: the second and the third both
\* intersect the first and share the column beside it
C7_Witness ==
  /\ layout.done
  /\ dayEvents = << SameDay(600, 660), SameDay(540, 630), SameDay(570, 600) >>
  /\ Intersect(1, 2) /\ Intersect(1, 3) /\ ~Intersect(2, 3)
  /\ layout.items[1].column = 0
  /\ layout.items[2].column = 1 /\ layout.items[3].column = 1

\* C8: items of the returned layout that are connected by a chain of pairwise
\* intersecting items have the same totalColumns.
C8_ClusterSharesTotalColumns ==
  layout.done =>
    \A i \in 1..Len(layout.items) : \A j \in Cluster({i}) :
      layout.items[i].totalColumns = layout.items[j].totalColumns

\* three events side by side from 09:30 to 10:00 and a fourth at 10:00 that
\* intersects only the one in column 0: it takes column 1, and is still laid
\* out in thirds
C8_Witness ==
  /\ layout.done
  /\ dayEvents = << SameDay(540, 630), SameDay(570, 600), SameDay(570, 600),
                    SameDay(600, 610) >>
  /\ Intersect(4, 1) /\ ~Intersect(4, 2) /\ ~Intersect(4, 3)
  /\ 2 \in Cluster({4})
  /\ layout.items[4].column = 1
  /\ layout.items[4].totalColumns = 3 /\ layout.items[2].totalColumns = 3

\* C9: when the k events handed to calculateEventLayout all intersect one
\* another, their columns are exactly 0..k-1 and every totalColumns is k.
\* 09:00-10:00 with 09:30-10:30 gives columns 0 and 1 of 2; 09:00-10:00 twice
\* with 09:30-10:30 gives columns 0, 1 and 2 of 3.
C9_CliqueFillsColumns ==
  layout.done =>
    LET k == Len(layout.items) IN
    /\ (\A i, j \in 1..k : i # j => Intersect(i, j)) =>
         /\ k = Len(dayEvents)
         /\ {layout.items[i].column : i \in 1..k} = 0..(k - 1)
         /\ \A i \in 1..k : layout.items[i].totalColumns = k
    /\ dayEvents = << SameDay(540, 600), SameDay(570, 630) >> =>
         /\ [i \in 1..k |-> layout.items[i].column] = << 0, 1 >>
         /\ [i \in 1..k |-> layout.items[i].totalColumns] = << 2, 2 >>
    /\ dayEvents = << SameDay(540, 600), SameDay(540, 600), SameDay(570, 630) >> =>
         /\ [i \in 1..k |-> layout.items[i].column] = << 0, 1, 2 >>
         /\ [i \in 1..k |-> layout.items[i].totalColumns] = << 3, 3, 3 >>

\* 09:00-10:00 twice and 09:30-10:30 laid out in three columns
C9_Witness ==
  /\ layout.done
  /\ dayEvents = << SameDay(540, 600), SameDay(540, 600), SameDay(570, 630) >>
  /\ \A i, j \in 1..3 : i # j => Intersect(i, j)
  /\ {layout.items[i].column : i \in 1..3} = {0, 1, 2}
  /\ \A i \in 1..3 : layout.items[i].totalColumns = 3


\* the number of items of the set S whose extents contain the top of item j
CoveringTop(S, j) ==
  Cardinality({k \in S : /\ layout.items[k].top <= layout.items[j].top
                        /\ layout.items[j].top < layout.items[k].top + layout.items[k].height})

Occurrences(seq, e) == Cardinality({k \in 1..Len(seq) : seq[k] = e})
ItemEvents == [k \in 1..Len(layout.items) |-> layout.items[k].event]

\* C31: every item returned by calculateEventLayout has totalColumns >= 1 and
\* 0 <= column < totalColumns, so that its slice, left = column * 100 /
\* totalColumns and width = 100 / totalColumns, lies within 0..100 percent of
\* the row; and the items hold each event handed in exactly once.
C31_SliceWithinRow ==
  layout.done =>
    /\ \A i \in 1..Len(layout.items) :
         LET column == layout.items[i].column
             totalColumns == layout.items[i].totalColumns
         IN /\ totalColumns >= 1
            /\ 0 <= column /\ column < totalColumns
            /\ column * 100 >= 0
            /\ (column * 100) + 100 <= 100 * totalColumns
    /\ Len(layout.items) = Len(dayEvents)
    /\ \A e \in DayEventChoices : Occurrences(ItemEvents, e) = Occurrences(dayEvents, e)

\* the same event 09:00-10:00 handed in twice, after one from 10:00 into the
\* next day: the two copies take the halves of the row, the third the full row
C31_Witness ==
  /\ layout.done
  /\ dayEvents = << CalendarEvent(Time(0, 600), EndAt(1, 480)), SameDay(540, 600),
                    SameDay(540, 600) >>
  /\ ItemEvents = << SameDay(540, 600), SameDay(540, 600),
                     CalendarEvent(Time(0, 600), EndAt(1, 480)) >>
  /\ [i \in 1..3 |-> layout.items[i].column] = << 0, 1, 0 >>
  /\ [i \in 1..3 |-> layout.items[i].totalColumns] = << 2, 2, 1 >>

\* a timed event that starts and ends on the day shown
IsSameDayTimed(e) ==
  e.endDate.set /\ isSameDay(e.date, currentDate) /\ isSameDay(e.endDate, currentDate)

\* the minutes [from, to) of the day shown that an event takes; an event
\* without end takes the hour it is drawn with
DayInterval(e) ==
  IF ~e.endDate.set THEN [from |-> e.date.min, to |-> e.date.min + 60]
  ELSE IF IsSameDayTimed(e) THEN [from |-> e.date.min, to |-> e.endDate.min]
  ELSE IF isSameDay(e.date, currentDate) THEN [from |-> e.date.min, to |-> 1440]
  ELSE IF isSameDay(e.endDate, currentDate) THEN [from |-> 0, to |-> e.endDate.min]
  ELSE [from |-> 0, to |-> 1440]

TimesIntersect(e, f) ==
  eventsOverlap(DayInterval(e).from, DayInterval(e).to, DayInterval(f).from, DayInterval(f).to)

\* C33: calculateEventLayout treats time ranges as half-open.  Two same-day
\* events of which one ends exactly where the other begins do not overlap:
\* when they are the only items, both get column 0 and totalColumns 1.
C33_AdjacentRangesShareNoColumn ==
  (/\ layout.done
   /\ Len(dayEvents) = 2
   /\ IsSameDayTimed(dayEvents[1]) /\ IsSameDayTimed(dayEvents[2])
   /\ \/ DayInterval(dayEvents[1]).to = DayInterval(dayEvents[2]).from
      \/ DayInterval(dayEvents[2]).to = DayInterval(dayEvents[1]).from)
  => \A i \in 1..2 : layout.items[i].column = 0 /\ layout.items[i].totalColumns = 1

\* C34: a same-day timed event whose minutes [start, end) intersect the
\* minutes of no other event gets column 0 and totalColumns 1, the full width
\* of the row, whatever its duration, durations under 20 minutes included.
C34_DisjointEventTakesFullRow ==
  layout.done =>
    \A i \in 1..Len(layout.items) :
      (/\ IsSameDayTimed(layout.items[i].event)
       /\ \A j \in 1..Len(layout.items) :
            j # i => ~TimesIntersect(layout.items[i].event, layout.items[j].event))
      => layout.items[i].column = 0 /\ layout.items[i].totalColumns = 1

(***************************************************************************)
(* The date calculations of the Gantt view on their own: one call of       *)
(* calculateDateFromDelta or of calculateTaskPosition on arguments drawn   *)
(* from small sets.                                                        *)
(***************************************************************************)
\* 2024-12-30 .. 2025-02-02 around the window of January 2025
CalcDates == {0 - 2, 0, 1, 5, 29, 30, 31, 33}
CalcWindows == {<< 0, 30 >>, << 0, 0 >>, << 5, 29 >>}
\* pixels per day: 4, 100, 1000 / 31 and 3 / 2
CalcScales == {<< 4, 1 >>, << 100, 1 >>, << 1000, 31 >>, << 3, 2 >>}
CalcPixels == {0 - 1000, 0 - 200, 0 - 12, 0 - 8, 0 - 6, 0 - 4, 0 - 3, 0 - 2,
               0, 2, 3, 4, 6, 8, 12, 200, 1000}

\* the start and end dates of zero, one or two tasks, in the order of the
\* task list; an end may precede its start
CalcTaskDates == {0 - 20, 0 - 2, 5, 30, 31, 58}
CalcTaskSets ==
  {<< >>} \cup {<< a, b >> : a \in CalcTaskDates, b \in CalcTaskDates}
  \cup {<< a, b, c, d >> : a \in CalcTaskDates, b \in CalcTaskDates,
                           c \in {0 - 2, 5, 31}, d \in {5, 58}}

\* the task list a call of calculateTimelineRange was given
TasksOf(args) ==
  [i \in 1..((Len(args) - 1) \div 2) |-> [start |-> args[2 * i], end |-> args[2 * i + 1]]]

\* useEventDrag.handleDragEnd(event): events is the list of [id, date] the
\* hook was given, active the id of the dragged item, over the id of the
\* droppable under it (<< >> for null); returns the updateProperty calls made
\* defective variant: the day strings are not compared
useEventDrag_handleDragEnd_uncompared(events, active, over) ==
  LET found == {k \in 1..Len(events) : events[k].id = active}
  IN IF over = << >> \/ found = {} THEN << >>
     ELSE << [prop |-> "start", val |-> over[1]] >>

useEventDrag_handleDragEnd(events, active, over) ==
  LET found == {k \in 1..Len(events) : events[k].id = active}
  IN IF over = << >> THEN << >>
     ELSE IF found = {} THEN << >>
     ELSE LET calendarEvent == events[CHOOSE k \in found : \A n \in found : k <= n]
              newDateString == over[1]
              oldDateString == formatDateString(calendarEvent.date)
          IN IF oldDateString # newDateString
             THEN << [prop |-> "start", val |-> newDateString] >>
             ELSE << >>

\* GanttView.handleChartDoubleClick: the dates handed to NewTaskModal for a
\* double-click at relativeX of a chart chartWidth wide (<< >> when the
\* handler returns before); onItem: the target is a task bar or group header
GanttView_handleChartDoubleClick(relativeX, chartWidth, timelineStart, timelineEnd, onItem) ==
  IF onItem THEN << >>
  ELSE LET totalDays == differenceInDays(timelineEnd, timelineStart)
           clickedDayOffset == MathFloor(relativeX * totalDays, chartWidth)
           clickedDate == addDays(timelineStart, clickedDayOffset)
           defaultEndDate == addDays(clickedDate, 7)
       IN << clickedDate, defaultEndDate >>

CalcInputs ==
  { [fn |-> "calculateDateFromDelta", args |-> << d, p, s[1], s[2] >>,
     done |-> FALSE, ret |-> << >>] : d \in {0, 30}, p \in CalcPixels, s \in CalcScales }
  \cup
  { [fn |-> "calculateTaskPosition", args |-> << a, b, w[1], w[2] >>,
     done |-> FALSE, ret |-> << >>] : a \in CalcDates, b \in CalcDates, w \in CalcWindows }
  \cup
  { [fn |-> "calculateTimelineRange", args |-> << now >> \o dates,
     done |-> FALSE, ret |-> << >>] : now \in {40}, dates \in CalcTaskSets }
  \cup
  { [fn |-> "handleDragEnd", args |-> << events, active, over >>,
     done |-> FALSE, ret |-> << >>] :
       events \in { << >>,
                    << [id |-> "a", date |-> 2] >>,
                    << [id |-> "a", date |-> 2], [id |-> "b", date |-> 3] >>,
                    << [id |-> "a", date |-> 2], [id |-> "a", date |-> 5] >>,
                    << [id |-> "b", date |-> InvalidDate] >> },
       active \in {"a", "b", "c"},
       over \in { << >>, << formatDateString(2) >>, << formatDateString(3) >>,
                  << formatDateString(5) >>, << TextValue("NaN-NaN-NaN") >>,
                  << TextValue("week-2") >> } }
  \cup
  { [fn |-> "handleChartDoubleClick", args |-> << x, width, w[1], w[2], onItem >>,
     done |-> FALSE, ret |-> << >>] :
       x \in {0, 2, 4, 61, 62, 63, 120, 123}, width \in {124, 248},
       w \in {<< 0, 30 >>, << 0 - 31, 58 >>}, onItem \in BOOLEAN }

InitCalc ==
  /\ view = "gantt"
  /\ geom = Unmeasured
  /\ groups = << >>
  /\ rendered = Item(0, 0, FALSE, "")
  /\ store = StoreOf(view, rendered)
  /\ sessions = << >>
  /\ dragStartRef = [h \in DragHooks |-> NoRef]
  /\ isActive = [h \in Hooks |-> FALSE]
  /\ hadMovementRef = [h \in Hooks |-> FALSE]
  /\ resizeTypeRef = [h \in ResizeHooks |-> "null"]
  /\ previewDrag = 0
  /\ previewResize = NoPreview
  /\ timers = 0
  /\ buttonsDown = {}
  /\ writes = << >>
  /\ ended = << >>
  /\ gestures = 0
  /\ ev = Last("init", 0, 0, 0)
  /\ returned = NoReturn
  /\ inflight = << >>
  /\ persistence = "settled"
  /\ dayEvents = << >>
  /\ layout = NoLayout
  /\ calc \in CalcInputs
  /\ opened = FALSE
  /\ creation = NoCreation

CalcUnchanged ==
  UNCHANGED << view, geom, groups, rendered, store, sessions, dragStartRef, isActive,
               hadMovementRef, resizeTypeRef, previewDrag, previewResize, timers,
               buttonsDown, gestures, writes, ended, ev, returned, persistence,
               inflight, dayEvents, layout, opened, creation >>

CallDateFromDelta ==
  /\ calc.fn = "calculateDateFromDelta" /\ ~calc.done
  /\ calc' = [calc EXCEPT
       !.done = TRUE,
       !.ret = << calculateDateFromDelta(calc.args[1], calc.args[2],
                                         [num |-> calc.args[3], den |-> calc.args[4]]) >>]
  /\ CalcUnchanged

CallTaskPosition ==
  /\ calc.fn = "calculateTaskPosition" /\ ~calc.done
  /\ calc' = [calc EXCEPT
       !.done = TRUE,
       !.ret = LET p == calculateTaskPosition(calc.args[1], calc.args[2],
                                              calc.args[3], calc.args[4])
               IN << p.left.num, p.width.num, p.left.den >>]
  /\ CalcUnchanged

CallTimelineRange ==
  /\ calc.fn = "calculateTimelineRange" /\ ~calc.done
  /\ calc' = [calc EXCEPT
       !.done = TRUE,
       !.ret = LET r == calculateTimelineRange(TasksOf(calc.args), calc.args[1])
               IN << r.start, r.end >>]
  /\ CalcUnchanged

CallDragEnd ==
  /\ calc.fn = "handleDragEnd" /\ ~calc.done
  /\ calc' = [calc EXCEPT
       !.done = TRUE,
       !.ret = useEventDrag_handleDragEnd(calc.args[1], calc.args[2], calc.args[3])]
  /\ CalcUnchanged

CallChartDoubleClick ==
  /\ calc.fn = "handleChartDoubleClick" /\ ~calc.done
  /\ calc' = [calc EXCEPT
       !.done = TRUE,
       !.ret = GanttView_handleChartDoubleClick(calc.args[1], calc.args[2], calc.args[3],
                                                calc.args[4], calc.args[5])]
  /\ CalcUnchanged

NextCalc ==
  CallDateFromDelta \/ CallTaskPosition \/ CallTimelineRange \/ CallDragEnd
  \/ CallChartDoubleClick

SpecCalc == InitCalc /\ [][NextCalc]_vars

(***************************************************************************)
(* Properties of the date calculations (checked under SpecCalc).           *)
(***************************************************************************)
\* C19: calculateDateFromDelta returns the original date for a pixel delta of
\* 0 and the original date plus k days for a pixel delta of k * pixelsPerDay,
\* for every integer k and every positive pixelsPerDay.
C19_WholeDaysMapExactly ==
  (calc.fn = "calculateDateFromDelta" /\ calc.done) =>
    LET originalDate == calc.args[1]
        pixelDelta == calc.args[2]
        num == calc.args[3]
        den == calc.args[4]
    IN /\ pixelDelta = 0 => calc.ret = << originalDate >>
       /\ \A k \in (0 - 250)..250 :
            pixelDelta * den = k * num => calc.ret = << originalDate + k >>

\* 1000px at 1000 / 31 pixels per day are 31 days: 2025-01-01 becomes 2025-02-01
C19_Witness ==
  /\ calc.fn = "calculateDateFromDelta" /\ calc.done
  /\ calc.args = << 0, 1000, 1000, 31 >>
  /\ calc.ret = << 31 >>

\* C20 as stated: for a window with start <= end and an item that lies fully
\* or partially within it, 0 <= left <= 100, width > 0 and left + width <= 100.
C20_PositionWithinWindow ==
  (calc.fn = "calculateTaskPosition" /\ calc.done) =>
    LET taskStart == calc.args[1]
        taskEnd == calc.args[2]
        timelineStart == calc.args[3]
        timelineEnd == calc.args[4]
        left == calc.ret[1]
        width == calc.ret[2]
        den == calc.ret[3]
    IN (/\ timelineStart <= timelineEnd
        /\ taskStart <= taskEnd
        /\ taskStart <= timelineEnd /\ taskEnd >= timelineStart) =>
         /\ den > 0
         /\ 0 <= left /\ left <= 100 * den
         /\ width > 0
         /\ left + width <= 100 * den


\* C21: for a non-empty task list calculateTimelineRange returns the first
\* day of the month of the earliest start-or-end date and the last day of the
\* month of the latest one: start <= end, both ends fall on month boundaries
\* and every task's start and end lie inside.  The result is determined by
\* the set of dates alone.
C21_WindowCoversEveryTask ==
  (calc.fn = "calculateTimelineRange" /\ calc.done /\ Len(calc.args) > 1) =>
    LET dates == {calc.args[i] : i \in 2..Len(calc.args)}
        lo == CHOOSE d \in dates : \A e \in dates : d <= e
        hi == CHOOSE d \in dates : \A e \in dates : d >= e
        start == calc.ret[1]
        end == calc.ret[2]
    IN /\ start = startOfMonth(lo) /\ end = endOfMonth(hi)
       /\ start <= end
       /\ DateOf(start) = 1 /\ DateOf(end + 1) = 1
       /\ MonthIndex(start) = MonthIndex(lo) /\ MonthIndex(end) = MonthIndex(hi)
       /\ \A d \in dates : start <= d /\ d <= end

\* two tasks, the second ending before it starts: 2025-01-06..2024-12-30 and
\* 2025-02-01..2025-01-06 give the window 2024-12-01..2025-02-28
C21_Witness ==
  /\ calc.fn = "calculateTimelineRange" /\ calc.done
  /\ calc.args = << 40, 31, 5, 0 - 2, 5 >>
  /\ calc.ret = << 0 - 31, 58 >>


\* C36: useEventDrag.handleDragEnd issues no write when there is no drop
\* target, when the dragged id matches no event, or when the target day
\* string equals formatDateString of the event's date; otherwise it issues
\* exactly one write, of the target day string to the date property, and no
\* write of any other property.
C36_DropWritesTargetDayOnce ==
  (calc.fn = "handleDragEnd" /\ calc.done) =>
    LET events == calc.args[1]
        active == calc.args[2]
        over == calc.args[3]
        found == {k \in 1..Len(events) : events[k].id = active}
        first == CHOOSE k \in found : \A n \in found : k <= n
    IN IF \/ over = << >>
          \/ found = {}
          \/ over[1] = formatDateString(events[first].date)
       THEN calc.ret = << >>
       ELSE /\ Len(calc.ret) = 1
            /\ calc.ret[1].prop = "start"
            /\ calc.ret[1].val = over[1]

\* the event of 2025-01-03 dropped on 2025-01-06: one write of that day
C36_Witness ==
  /\ calc.fn = "handleDragEnd" /\ calc.done
  /\ calc.args = << << [id |-> "a", date |-> 2], [id |-> "b", date |-> 3] >>, "a",
                    << Ymd(2025, 1, 6) >> >>
  /\ calc.ret = << [prop |-> "start", val |-> Ymd(2025, 1, 6)] >>

\* C37: GanttView.handleChartDoubleClick creates the task at the clicked
\* date: for a click at x inside the chart the start date handed to the modal
\* is the day d whose rendered column contains x, that is
\* left <= 100 * x / chartWidth < left + width for the left and width that
\* calculateTaskPosition(d, d, timelineStart, timelineEnd) returns.
C37_ClickedDateIsColumnUnderPointer ==
  (calc.fn = "handleChartDoubleClick" /\ calc.done /\ calc.ret # << >>) =>
    LET x == calc.args[1]
        chartWidth == calc.args[2]
        d == calc.ret[1]
        p == calculateTaskPosition(d, d, calc.args[3], calc.args[4])
    IN (0 <= x /\ x < chartWidth) =>
         /\ p.left.num * chartWidth <= 100 * x * p.left.den
         /\ 100 * x * p.left.den < (p.left.num + p.width.num) * chartWidth

=============================================================================
